---- MODULE Spec2Model ----
(***************************************************************************)
(* Model of pa2.c: the default FCFS resource protocol (fcfs_acquire,       *)
(* fcfs_release) and the FIFO, SJF and SRTF schedule callbacks, driven by  *)
(* the simulation driver that spec.md describes (sections 2 and 5): each   *)
(* tick the driver forks arrivals, calls schedule, advances the chosen     *)
(* process's age, and then calls acquire/release for the current process.  *)
(*                                                                         *)
(* A list_head list is a sequence of process ids; a process pointer is a   *)
(* process id, NULL is 0.                                                  *)
(***************************************************************************)
EXTENDS Integers, Sequences, FiniteSets, TLC

\* ------------------------------------------------------------------ bounds
NProc == 4
NRes == 2
MaxLife == 4

Proc == 1..NProc
Res == 1..NRes
NULL == 0

PROCESS_NEW == "NEW"
PROCESS_READY == "READY"
PROCESS_RUNNING == "RUNNING"
PROCESS_WAIT == "WAIT"
PROCESS_EXIT == "EXIT"

\* a function pointer left out of a struct scheduler initialiser
NoCallback == "null"

\* struct scheduler fifo_scheduler
fifo_scheduler ==
    [name |-> "FIFO",
     acquire |-> "fcfs_acquire", release |-> "fcfs_release",
     initialize |-> "fifo_initialize", finalize |-> "fifo_finalize",
     schedule |-> "fifo_schedule"]

\* struct scheduler sjf_scheduler
sjf_scheduler ==
    [name |-> "Shortest-Job First",
     acquire |-> "fcfs_acquire", release |-> "fcfs_release",
     initialize |-> "sjf_initialize", finalize |-> "sjf_finalize",
     schedule |-> "sjf_schedule"]

\* struct scheduler srtf_scheduler
srtf_scheduler ==
    [name |-> "Shortest Remaining Time First",
     acquire |-> "fcfs_acquire", release |-> "fcfs_release",
     initialize |-> "srtf_initialize", finalize |-> "srtf_finalize",
     schedule |-> "srtf_schedule"]

\* rr_scheduler with a schedule callback and the initialize/finalize pair
rr_scheduler_complete ==
    [name |-> "Round-Robin",
     acquire |-> "fcfs_acquire", release |-> "fcfs_release",
     initialize |-> "fifo_initialize", finalize |-> "fifo_finalize",
     schedule |-> "fifo_schedule"]

\* struct scheduler rr_scheduler: only acquire and release are given
rr_scheduler ==
    [name |-> "Round-Robin",
     acquire |-> "fcfs_acquire", release |-> "fcfs_release",
     initialize |-> NoCallback, finalize |-> NoCallback,
     schedule |-> NoCallback]

\* struct scheduler prio_scheduler: only the name is given
prio_scheduler ==
    [name |-> "Priority",
     acquire |-> NoCallback, release |-> NoCallback,
     initialize |-> NoCallback, finalize |-> NoCallback,
     schedule |-> NoCallback]

\* struct scheduler pip_scheduler: only the name is given
pip_scheduler ==
    [name |-> "Priority + Priority Inheritance Protocol",
     acquire |-> NoCallback, release |-> NoCallback,
     initialize |-> NoCallback, finalize |-> NoCallback,
     schedule |-> NoCallback]

Callbacks == {"acquire", "release", "initialize", "finalize", "schedule"}

Policies == {"FIFO", "SJF", "SRTF", "RR", "PRIO", "PIP"}

VARIABLES
    policy,      \* the scheduler selected for the run
    current,     \* extern struct process *current
    readyqueue,  \* extern struct list_head readyqueue
    owner,       \* resources[r].owner
    waitqueue,   \* resources[r].waitqueue
    status,      \* process->status
    age,         \* process->age
    lifespan,    \* process->lifespan
    pc,          \* position of the driver inside a tick
    call,        \* the last callback made and what it returned
    holding,     \* driver's record of the resources granted to each process
    runs,        \* history: number of times schedule returned each process
    served,      \* history: processes that have owned each resource
    pending,     \* history: processes denied a resource and not granted it
                 \* since, in the order of their denials
    overtaken    \* history: the processes the last grant went ahead of

vars == <<policy, current, readyqueue, owner, waitqueue, status, age, lifespan,
          pc, call, holding, runs, served, pending, overtaken>>

prog == <<current, readyqueue, owner, waitqueue, status, age, lifespan>>

\* the struct scheduler the run was started with
sched ==
    CASE policy = "FIFO" -> fifo_scheduler
      [] policy = "SJF" -> sjf_scheduler
      [] policy = "SRTF" -> srtf_scheduler
      [] policy = "RR" -> rr_scheduler
      [] policy = "PRIO" -> prio_scheduler
      [] policy = "PIP" -> pip_scheduler

\* ------------------------------------------------------------------ lists
\* list_del_init(&p->list): unlink p from the list it is on
ListDel(q, p) == SelectSeq(q, LAMBDA x : x # p)

\* list_add(&p->list, head): insert right after the head
ListAdd(q, p) == <<p>> \o q

\* list_add_tail(&p->list, head)
ListAddTail(q, p) == Append(q, p)

InSeq(q, p) == \E i \in 1..Len(q) : q[i] = p

Occurrences(q, p) == Cardinality({i \in 1..Len(q) : q[i] = p})

NoCall == [op |-> "none", rid |-> 0, ret |-> 0, assert |-> 0]

\* ------------------------------------------------------------------ Init
Init ==
    /\ policy \in Policies
    /\ current = NULL
    /\ readyqueue = <<>>
    /\ owner = [r \in Res |-> NULL]
    /\ waitqueue = [r \in Res |-> <<>>]
    /\ status = [p \in Proc |-> PROCESS_NEW]
    /\ age = [p \in Proc |-> 0]
    /\ lifespan = [p \in Proc |-> 0]
    /\ pc = "init"
    /\ call = NoCall
    /\ holding = [p \in Proc |-> {}]
    /\ runs = [p \in Proc |-> 0]
    /\ served = [r \in Res |-> {}]
    /\ pending = [r \in Res |-> <<>>]
    /\ overtaken = {}

\* ------------------------------------------------------------------ resource protocol
\* fcfs_acquire without the owner test: the caller always takes the resource
fcfs_acquire_grab(r) ==
    /\ owner' = [owner EXCEPT ![r] = current]
    /\ call' = [op |-> "acquire", rid |-> r, ret |-> 1, assert |-> 0]
    /\ UNCHANGED <<status, waitqueue, readyqueue>>

\* fcfs_acquire queueing the caller with list_add instead of list_add_tail
fcfs_acquire_head(r) ==
    IF owner[r] = NULL
    THEN /\ owner' = [owner EXCEPT ![r] = current]
         /\ call' = [op |-> "acquire", rid |-> r, ret |-> 1, assert |-> 0]
         /\ UNCHANGED <<status, waitqueue, readyqueue>>
    ELSE /\ status' = [status EXCEPT ![current] = PROCESS_WAIT]
         /\ waitqueue' = [waitqueue EXCEPT ![r] = ListAdd(@, current)]
         /\ call' = [op |-> "acquire", rid |-> r, ret |-> 0, assert |-> 0]
         /\ UNCHANGED <<owner, readyqueue>>

\* bool fcfs_acquire(int resource_id), called for the current process
fcfs_acquire(r) ==
    IF owner[r] = NULL
    THEN \* This resource is not owned by any one. Take it!
         /\ owner' = [owner EXCEPT ![r] = current]
         /\ call' = [op |-> "acquire", rid |-> r, ret |-> 1, assert |-> 0]
         /\ UNCHANGED <<status, waitqueue, readyqueue>>
    ELSE \* taken: current waits at the tail of the wait queue
         /\ status' = [status EXCEPT ![current] = PROCESS_WAIT]
         /\ waitqueue' = [waitqueue EXCEPT ![r] = ListAddTail(@, current)]
         /\ call' = [op |-> "acquire", rid |-> r, ret |-> 0, assert |-> 0]
         /\ UNCHANGED <<owner, readyqueue>>

\* the wake-up of fcfs_release with one step changed: which waiter is taken
\* (pick), what the resource's owner becomes (own), whether the waiter's
\* status is updated (ready)
ReleaseVariant(r, pick(_), own(_), ready) ==
    IF owner[r] # current
    THEN /\ call' = [op |-> "release", rid |-> r, ret |-> 0, assert |-> 105]
         /\ UNCHANGED <<owner, status, waitqueue, readyqueue>>
    ELSE IF waitqueue[r] = <<>>
    THEN /\ owner' = [owner EXCEPT ![r] = NULL]
         /\ call' = [op |-> "release", rid |-> r, ret |-> 0, assert |-> 0]
         /\ UNCHANGED <<status, waitqueue, readyqueue>>
    ELSE LET waiter == pick(waitqueue[r]) IN
         /\ owner' = [owner EXCEPT ![r] = own(waiter)]
         /\ waitqueue' = [waitqueue EXCEPT ![r] = ListDel(@, waiter)]
         /\ status' = IF ready THEN [status EXCEPT ![waiter] = PROCESS_READY]
                       ELSE status
         /\ readyqueue' = ListAddTail(readyqueue, waiter)
         /\ call' = [op |-> "release", rid |-> r, ret |-> 0, assert |-> 0]

\* fcfs_release waking the last waiter instead of the first
fcfs_release_last(r) ==
    ReleaseVariant(r, LAMBDA q : q[Len(q)], LAMBDA w : NULL, TRUE)

\* fcfs_release handing the resource to the waiter it wakes
fcfs_release_handoff(r) ==
    ReleaseVariant(r, LAMBDA q : Head(q), LAMBDA w : w, TRUE)

\* fcfs_release without "waiter->status = PROCESS_READY"
fcfs_release_nostatus(r) ==
    ReleaseVariant(r, LAMBDA q : Head(q), LAMBDA w : NULL, FALSE)

\* fcfs_release without the ownership assertion
fcfs_release_unchecked(r) ==
    IF waitqueue[r] = <<>>
    THEN /\ owner' = [owner EXCEPT ![r] = NULL]
         /\ call' = [op |-> "release", rid |-> r, ret |-> 0, assert |-> 0]
         /\ UNCHANGED <<status, waitqueue, readyqueue>>
    ELSE LET waiter == Head(waitqueue[r]) IN
         /\ owner' = [owner EXCEPT ![r] = NULL]
         /\ waitqueue' = [waitqueue EXCEPT ![r] = ListDel(@, waiter)]
         /\ status' = [status EXCEPT ![waiter] = PROCESS_READY]
         /\ readyqueue' = ListAddTail(readyqueue, waiter)
         /\ call' = [op |-> "release", rid |-> r, ret |-> 0, assert |-> 0]

\* void fcfs_release(int resource_id), called for the current process
fcfs_release(r) ==
    IF owner[r] # current
    THEN \* assert(r->owner == current) fails: abort()
         /\ call' = [op |-> "release", rid |-> r, ret |-> 0, assert |-> 105]
         /\ UNCHANGED <<owner, status, waitqueue, readyqueue>>
    ELSE IF waitqueue[r] = <<>>
    THEN /\ owner' = [owner EXCEPT ![r] = NULL]
         /\ call' = [op |-> "release", rid |-> r, ret |-> 0, assert |-> 0]
         /\ UNCHANGED <<status, waitqueue, readyqueue>>
    ELSE LET waiter == Head(waitqueue[r]) IN
         IF status[waiter] # PROCESS_WAIT
         THEN \* assert(waiter->status == PROCESS_WAIT) fails after the un-own
              /\ owner' = [owner EXCEPT ![r] = NULL]
              /\ call' = [op |-> "release", rid |-> r, ret |-> 0, assert |-> 118]
              /\ UNCHANGED <<status, waitqueue, readyqueue>>
         ELSE /\ owner' = [owner EXCEPT ![r] = NULL]
              /\ waitqueue' = [waitqueue EXCEPT ![r] = ListDel(@, waiter)]
              /\ status' = [status EXCEPT ![waiter] = PROCESS_READY]
              /\ readyqueue' = ListAddTail(readyqueue, waiter)
              /\ call' = [op |-> "release", rid |-> r, ret |-> 0, assert |-> 0]

\* ------------------------------------------------------------------ schedulers
\* A schedule callback is evaluated on the state it is called in and yields
\* the set of its possible outcomes: the process returned (next), the ready
\* queue and the current slot as the callback leaves them, and whether the
\* callback faulted.
Outcome(n, q, c) == [next |-> n, rq |-> q, cur |-> c, fault |-> FALSE]

Fault == [next |-> NULL, rq |-> readyqueue, cur |-> current, fault |-> TRUE]

\* fifo_schedule without the "age < lifespan" test on current
fifo_schedule_noage ==
    IF current = NULL \/ status[current] = PROCESS_WAIT
    THEN IF readyqueue # <<>>
         THEN {Outcome(Head(readyqueue), Tail(readyqueue), current)}
         ELSE {Outcome(NULL, readyqueue, current)}
    ELSE {Outcome(current, readyqueue, current)}

\* fifo_schedule taking the last entry of the ready queue
fifo_schedule_last ==
    LET pick_next ==
            IF readyqueue # <<>>
            THEN LET next == readyqueue[Len(readyqueue)] IN
                 {Outcome(next, ListDel(readyqueue, next), current)}
            ELSE {Outcome(NULL, readyqueue, current)}
    IN  IF current = NULL \/ status[current] = PROCESS_WAIT
        THEN pick_next
        ELSE IF age[current] < lifespan[current]
        THEN {Outcome(current, readyqueue, current)}
        ELSE pick_next

\* static struct process *fifo_schedule(void)
fifo_schedule ==
    LET pick_next ==
            IF readyqueue # <<>>
            THEN LET next == Head(readyqueue) IN
                 {Outcome(next, ListDel(readyqueue, next), current)}
            ELSE {Outcome(NULL, readyqueue, current)}
    IN  IF current = NULL \/ status[current] = PROCESS_WAIT
        THEN pick_next
        ELSE IF age[current] < lifespan[current]
        THEN {Outcome(current, readyqueue, current)}
        ELSE pick_next

\* the list_for_each_entry scan of sjf_schedule: best is replaced only by a
\* strictly shorter lifespan
RECURSIVE SjfScan(_, _, _)
SjfScan(q, i, best) ==
    IF i > Len(q) THEN best
    ELSE SjfScan(q, i + 1, IF lifespan[best] > lifespan[q[i]] THEN q[i] ELSE best)

\* sjf_schedule that gives the processor to a ready process with a shorter
\* lifespan than the current one's
sjf_schedule_preempt ==
    LET skip ==
            IF readyqueue # <<>>
            THEN LET cur == SjfScan(readyqueue, 1, Head(readyqueue)) IN
                 {Outcome(cur, ListDel(readyqueue, cur), cur)}
            ELSE {Outcome(NULL, readyqueue, current)}
    IN  IF current = NULL \/ status[current] = PROCESS_WAIT
        THEN skip
        ELSE IF age[current] < lifespan[current]
        THEN IF readyqueue # <<>>
                /\ lifespan[SjfScan(readyqueue, 1, Head(readyqueue))]
                      < lifespan[current]
             THEN LET cur == SjfScan(readyqueue, 1, Head(readyqueue)) IN
                  {Outcome(cur, ListAdd(ListDel(readyqueue, cur), current), cur)}
             ELSE {Outcome(current, readyqueue, current)}
        ELSE skip

\* sjf_schedule scanning with next as the candidate: current is left at the
\* first entry of the ready queue
sjf_schedule_slot ==
    LET skip ==
            IF readyqueue # <<>>
            THEN LET next == SjfScan(readyqueue, 1, Head(readyqueue)) IN
                 {Outcome(next, ListDel(readyqueue, next), Head(readyqueue))}
            ELSE {Outcome(NULL, readyqueue, current)}
    IN  IF current = NULL \/ status[current] = PROCESS_WAIT
        THEN skip
        ELSE IF age[current] < lifespan[current]
        THEN {Outcome(current, readyqueue, current)}
        ELSE skip

\* sjf_schedule with ">=" in the scan: among equal lifespans the entry
\* nearest the tail wins
sjf_schedule_ties ==
    LET skip ==
            IF readyqueue # <<>>
            THEN LET i == CHOOSE k \in 1..Len(readyqueue) :
                            /\ \A j \in 1..Len(readyqueue) :
                                  lifespan[readyqueue[k]] <= lifespan[readyqueue[j]]
                            /\ \A j \in (k + 1)..Len(readyqueue) :
                                  lifespan[readyqueue[k]] < lifespan[readyqueue[j]]
                     cur == readyqueue[i]
                 IN  {Outcome(cur, ListDel(readyqueue, cur), cur)}
            ELSE {Outcome(NULL, readyqueue, current)}
    IN  IF current = NULL \/ status[current] = PROCESS_WAIT
        THEN skip
        ELSE IF age[current] < lifespan[current]
        THEN {Outcome(current, readyqueue, current)}
        ELSE skip

\* static struct process *sjf_schedule(void)
sjf_schedule ==
    LET skip ==
            IF readyqueue # <<>>
            THEN LET cur == SjfScan(readyqueue, 1, Head(readyqueue)) IN
                 {Outcome(cur, ListDel(readyqueue, cur), cur)}
            ELSE {Outcome(NULL, readyqueue, current)}
    IN  IF current = NULL \/ status[current] = PROCESS_WAIT
        THEN skip
        ELSE IF age[current] < lifespan[current]
        THEN {Outcome(current, readyqueue, current)}
        ELSE skip

\* the list_for_each_entry scan of srtf_schedule, on remaining time
RECURSIVE SrtfScan(_, _, _)
SrtfScan(q, i, init) ==
    IF i > Len(q) THEN init
    ELSE SrtfScan(q, i + 1,
                  IF lifespan[init] - age[init] > lifespan[q[i]] - age[q[i]]
                  THEN q[i] ELSE init)

\* srtf_schedule that never takes the processor from an eligible current
srtf_schedule_nopreempt ==
    IF readyqueue # <<>>
    THEN LET init == SrtfScan(readyqueue, 1, Head(readyqueue)) IN
         IF current = NULL \/ status[current] = PROCESS_WAIT
         THEN {Outcome(init, ListDel(readyqueue, init), current)}
         ELSE IF age[current] < lifespan[current]
         THEN {Outcome(current, readyqueue, current)}
         ELSE {Outcome(init, ListDel(readyqueue, init), current)}
    ELSE IF current # NULL
         THEN IF age[current] < lifespan[current]
              THEN {Outcome(current, readyqueue, current)}
              ELSE {Outcome(NULL, readyqueue, current)}
         ELSE {Fault, Outcome(NULL, readyqueue, current)}

\* srtf_schedule preempting on "<=": an equal remaining time takes over
srtf_schedule_eager ==
    IF readyqueue # <<>>
    THEN LET init == SrtfScan(readyqueue, 1, Head(readyqueue)) IN
         IF current = NULL \/ status[current] = PROCESS_WAIT
         THEN {Outcome(init, ListDel(readyqueue, init), current)}
         ELSE IF age[current] < lifespan[current]
         THEN IF lifespan[init] - age[init] <= lifespan[current] - age[current]
              THEN {Outcome(init, ListAdd(ListDel(readyqueue, init), current), current)}
              ELSE {Outcome(current, readyqueue, current)}
         ELSE {Outcome(init, ListDel(readyqueue, init), current)}
    ELSE IF current # NULL
         THEN IF age[current] < lifespan[current]
              THEN {Outcome(current, readyqueue, current)}
              ELSE {Outcome(NULL, readyqueue, current)}
         ELSE {Fault, Outcome(NULL, readyqueue, current)}

\* srtf_schedule preempting without list_add(&current->list, &readyqueue)
srtf_schedule_drop ==
    IF readyqueue # <<>>
    THEN LET init == SrtfScan(readyqueue, 1, Head(readyqueue)) IN
         IF current = NULL \/ status[current] = PROCESS_WAIT
         THEN {Outcome(init, ListDel(readyqueue, init), current)}
         ELSE IF age[current] < lifespan[current]
         THEN IF lifespan[init] - age[init] < lifespan[current] - age[current]
              THEN {Outcome(init, ListDel(readyqueue, init), current)}
              ELSE {Outcome(current, readyqueue, current)}
         ELSE {Outcome(init, ListDel(readyqueue, init), current)}
    ELSE IF current # NULL
         THEN IF age[current] < lifespan[current]
              THEN {Outcome(current, readyqueue, current)}
              ELSE {Outcome(NULL, readyqueue, current)}
         ELSE {Fault, Outcome(NULL, readyqueue, current)}

\* static struct process *srtf_schedule(void)
srtf_schedule ==
    IF readyqueue # <<>>
    THEN LET init == SrtfScan(readyqueue, 1, Head(readyqueue)) IN
         IF current = NULL \/ status[current] = PROCESS_WAIT
         THEN {Outcome(init, ListDel(readyqueue, init), current)}
         ELSE IF age[current] < lifespan[current]
         THEN IF lifespan[init] - age[init] < lifespan[current] - age[current]
              THEN {Outcome(init, ListAdd(ListDel(readyqueue, init), current), current)}
              ELSE {Outcome(current, readyqueue, current)}
         ELSE {Outcome(init, ListDel(readyqueue, init), current)}
    ELSE \* if (current != NULL || current->status == PROCESS_RUNNING)
         IF current # NULL
         THEN IF age[current] < lifespan[current]
              THEN {Outcome(current, readyqueue, current)}
              ELSE {Outcome(NULL, readyqueue, current)}
         ELSE \* current->status read through a null pointer: undefined
              \* behaviour; the call faults, or the read goes through and
              \* the callback falls to "return init" with init == NULL
              {Fault, Outcome(NULL, readyqueue, current)}

\* sched->schedule() of the selected scheduler; a call through a pointer
\* that was never set faults
sched_schedule ==
    CASE sched.schedule = "fifo_schedule" -> fifo_schedule
      [] sched.schedule = "sjf_schedule" -> sjf_schedule
      [] sched.schedule = "srtf_schedule" -> srtf_schedule
      [] OTHER -> {Fault}

\* ------------------------------------------------------------------ driver
\* the processes denied before p's own outstanding denial, or every process
\* with an outstanding denial when p has none
AheadOf(q, p) ==
    IF InSeq(q, p)
    THEN {q[i] : i \in {j \in 1..Len(q) : \E k \in 1..Len(q) : q[k] = p /\ j < k}}
    ELSE {q[i] : i \in 1..Len(q)}

NoGrant == overtaken' = {} /\ UNCHANGED <<served, pending>>

InAnyQueue(p) == InSeq(readyqueue, p) \/ \E r \in Res : InSeq(waitqueue[r], p)

\* The driver starts the run: a scheduler with a missing callback is
\* rejected with a configuration error before anything is called; otherwise
\* sched->initialize() is called (it returns 0) and the ticks begin.
Initialize ==
    /\ pc = "init"
    /\ IF \E f \in Callbacks : sched[f] = NoCallback
       THEN /\ pc' = "config_error"
            /\ call' = NoCall
       ELSE /\ pc' = "fork"
            /\ call' = [op |-> "initialize", rid |-> 0, ret |-> 0, assert |-> 0]
    /\ UNCHANGED <<policy, holding, runs>>
    /\ UNCHANGED prog
    /\ NoGrant

\* The generator hands the next process to the driver: age 0, READY, at the
\* tail of the ready queue.  Processes arrive in id order.
Fork(p) ==
    /\ pc = "fork"
    /\ status[p] = PROCESS_NEW
    /\ \A q \in Proc : q < p => status[q] # PROCESS_NEW
    /\ \E l \in 1..MaxLife : lifespan' = [lifespan EXCEPT ![p] = l]
    /\ status' = [status EXCEPT ![p] = PROCESS_READY]
    /\ readyqueue' = ListAddTail(readyqueue, p)
    /\ call' = NoCall
    /\ UNCHANGED <<policy, current, owner, waitqueue, age, pc, holding, runs>>
    /\ NoGrant

\* The driver asks the policy for the process to run in this tick, puts it in
\* the current slot, and retires the process of the previous tick: it is no
\* longer RUNNING, and it leaves the simulation once age == lifespan.
Schedule ==
    /\ pc = "fork"
    /\ \E o \in sched_schedule :
        LET prev == current
            st1 == IF prev # NULL /\ status[prev] = PROCESS_RUNNING
                   THEN [status EXCEPT ![prev] = PROCESS_READY] ELSE status
            st2 == IF prev # NULL /\ age[prev] = lifespan[prev]
                   THEN [st1 EXCEPT ![prev] = PROCESS_EXIT] ELSE st1
        IN  IF o.fault
            THEN /\ pc' = "fault"
                 /\ call' = [op |-> "schedule", rid |-> 0, ret |-> NULL, assert |-> 313]
                 /\ UNCHANGED <<current, readyqueue, status, runs>>
            ELSE /\ current' = o.next
                 /\ readyqueue' = o.rq
                 /\ status' = st2
                 /\ call' = [op |-> "schedule", rid |-> 0, ret |-> o.next,
                             assert |-> 0, cur |-> o.cur]
                 /\ runs' = IF o.next # NULL
                            THEN [runs EXCEPT ![o.next] = @ + 1] ELSE runs
                 /\ pc' = IF o.next # NULL THEN "sched"
                          ELSE IF \A p \in Proc : st2[p] = PROCESS_EXIT
                          THEN "done" ELSE "fork"
    /\ UNCHANGED <<policy, owner, waitqueue, age, lifespan, holding>>
    /\ overtaken' = {}
    /\ IF current # NULL /\ age[current] = lifespan[current] /\ pc' # "fault"
       THEN /\ served' = [r \in Res |-> served[r] \ {current}]
            /\ pending' = [r \in Res |-> ListDel(pending[r], current)]
       ELSE UNCHANGED <<served, pending>>

\* The driver runs the chosen process for this tick: a process still linked
\* on a queue is a queue-consistency violation and aborts the simulation;
\* otherwise the process is RUNNING and its age advances.
Run ==
    /\ pc = "sched"
    /\ IF InAnyQueue(current)
       THEN /\ pc' = "abort"
            /\ call' = [op |-> "run", rid |-> 0, ret |-> current, assert |-> 1]
            /\ UNCHANGED <<status, age>>
       ELSE /\ pc' = "run"
            /\ status' = [status EXCEPT ![current] = PROCESS_RUNNING]
            /\ age' = [age EXCEPT ![current] = @ + 1]
            /\ call' = [op |-> "run", rid |-> 0, ret |-> current, assert |-> 0]
    /\ UNCHANGED <<policy, current, readyqueue, owner, waitqueue, lifespan,
                   holding, runs>>
    /\ NoGrant

\* The running process requests resource r: the driver calls sched->acquire.
Acquire(r) ==
    /\ pc = "run"
    /\ status[current] = PROCESS_RUNNING
    /\ age[current] < lifespan[current]
    /\ owner[r] # current
    /\ fcfs_acquire(r)
    /\ holding' = IF call'.ret = 1
                  THEN [holding EXCEPT ![current] = @ \cup {r}] ELSE holding
    /\ IF call'.ret = 1
       THEN /\ overtaken' = IF current \in served[r] THEN {}
                             ELSE {w \in AheadOf(pending[r], current) :
                                      age[w] < lifespan[w]}
            /\ served' = [served EXCEPT ![r] = @ \cup {current}]
            /\ pending' = [pending EXCEPT ![r] = ListDel(@, current)]
       ELSE /\ overtaken' = {}
            /\ served' = served
            /\ pending' = [pending EXCEPT ![r] =
                               IF InSeq(@, current) THEN @ ELSE Append(@, current)]
    /\ UNCHANGED <<policy, current, age, lifespan, pc, runs>>

\* The running process frees resource r: the driver calls sched->release.
\* A failed assertion of the callback aborts the simulation.
Release(r) ==
    /\ pc = "run"
    /\ status[current] = PROCESS_RUNNING
    /\ fcfs_release(r)
    /\ pc' = IF call'.assert # 0 THEN "abort" ELSE pc
    /\ holding' = IF call'.assert = 0
                  THEN [holding EXCEPT ![current] = @ \ {r}] ELSE holding
    /\ UNCHANGED <<policy, current, age, lifespan, runs>>
    /\ NoGrant

\* The tick ends; the next one starts with the arrivals.
EndTick ==
    /\ pc = "run"
    /\ age[current] = lifespan[current] => holding[current] = {}
    /\ pc' = "fork"
    /\ call' = NoCall
    /\ UNCHANGED <<policy, holding, runs>>
    /\ UNCHANGED prog
    /\ NoGrant

Next ==
    \/ Initialize
    \/ \E p \in Proc : Fork(p)
    \/ Schedule
    \/ Run
    \/ \E r \in Res : Acquire(r)
    \/ \E r \in Res : Release(r)
    \/ EndTick

Spec == Init /\ [][Next]_vars

\* ------------------------------------------------------------------ fair runs
\* The workloads of the termination claim: a process requests a resource
\* only while it holds none, frees only what it holds, and holds nothing
\* when its last tick begins.
AcquireLive(r) == pc = "run" /\ holding[current] = {} /\ Acquire(r)

ReleaseLive(r) == pc = "run" /\ r \in holding[current] /\ Release(r)

EndTickLive ==
    /\ pc = "run"
    /\ age[current] >= lifespan[current] - 1 => holding[current] = {}
    /\ EndTick

NextLive ==
    \/ Initialize
    \/ \E p \in Proc : Fork(p)
    \/ Schedule
    \/ Run
    \/ \E r \in Res : AcquireLive(r)
    \/ \E r \in Res : ReleaseLive(r)
    \/ EndTickLive

\* The driver loop never stops by itself: every tick is scheduled, run and
\* ended, every process of the workload arrives, and a resource that must
\* be freed is freed.
LiveSpec ==
    /\ Init
    /\ [][NextLive]_vars
    /\ WF_vars(Initialize)
    /\ WF_vars(Schedule)
    /\ WF_vars(Run)
    /\ SF_vars(EndTickLive)
    /\ \A p \in Proc : SF_vars(Fork(p))
    /\ \A r \in Res : WF_vars(ReleaseLive(r))

\* ------------------------------------------------------------------ claims
\* the step is a call of fcfs_acquire / fcfs_release on resource r
AcquireCalled(r) == pc = "run" /\ call'.op = "acquire" /\ call'.rid = r

ReleaseCalled(r) == pc = "run" /\ call'.op = "release" /\ call'.rid = r

Last(q) == q[Len(q)]

\* C1: resource mutual exclusion: no resource is held by two processes, a
\* resource is held by exactly the process recorded as its owner, and
\* fcfs_acquire on a resource whose owner is non-null returns false and
\* leaves the owner unchanged.
C1_MutualExclusion ==
    /\ [](/\ \A p, q \in Proc : p # q => holding[p] \cap holding[q] = {}
          /\ \A p \in Proc : \A r \in holding[p] : owner[r] = p)
    /\ [][\A r \in Res :
            (AcquireCalled(r) /\ owner[r] # NULL)
                => (call'.ret = 0 /\ owner' = owner /\ holding' = holding)]_vars

\* a denied acquire on a resource held by another process
C1_Witness ==
    /\ call.op = "acquire" /\ call.ret = 0
    /\ owner[call.rid] \in Proc \ {current}
    /\ call.rid \in holding[owner[call.rid]]

\* C2: a denied fcfs_acquire returns false, makes the caller WAITING, appends
\* it at the tail of that resource's wait queue, and leaves the owners, the
\* other wait queues, the ready queue and every other status unchanged.
C2_DeniedAcquire ==
    [][\A r \in Res :
        (AcquireCalled(r) /\ owner[r] # NULL)
            => /\ call'.ret = 0
               /\ status' = [status EXCEPT ![current] = PROCESS_WAIT]
               /\ waitqueue' = [waitqueue EXCEPT ![r] = Append(@, current)]
               /\ owner' = owner
               /\ readyqueue' = readyqueue]_vars

\* a denied caller queued behind a process that was already waiting
C2_Witness ==
    /\ call.op = "acquire" /\ call.ret = 0
    /\ Len(waitqueue[call.rid]) >= 2
    /\ Last(waitqueue[call.rid]) = current
    /\ status[current] = PROCESS_WAIT

\* C3: fcfs_release by the owner with a non-empty wait queue wakes exactly the
\* head waiter: it leaves the wait queue, becomes READY and goes to the tail
\* of the ready queue, the other waiters keep their order; with an empty
\* wait queue the ready queue, the wait queues and the statuses are unchanged.
C3_ReleaseWakesHead ==
    [][\A r \in Res :
        (ReleaseCalled(r) /\ owner[r] = current)
            => IF waitqueue[r] # <<>>
               THEN /\ waitqueue' = [waitqueue EXCEPT ![r] = Tail(@)]
                    /\ status' = [status EXCEPT ![Head(waitqueue[r])] = PROCESS_READY]
                    /\ readyqueue' = Append(readyqueue, Head(waitqueue[r]))
               ELSE /\ readyqueue' = readyqueue
                    /\ waitqueue' = waitqueue
                    /\ status' = status]_vars

\* a release that woke one waiter and left two others waiting
C3_Witness ==
    /\ call.op = "release" /\ call.assert = 0
    /\ Len(waitqueue[call.rid]) >= 2
    /\ readyqueue # <<>>
    /\ Last(readyqueue) \in {pending[call.rid][i] : i \in 1..Len(pending[call.rid])}
    /\ status[Last(readyqueue)] = PROCESS_READY

\* C4: a successful fcfs_release leaves the resource without owner, woken
\* waiter or not; a process becomes owner of a resource only by an acquire
\* call for that resource made while it is the current process.
C4_NoHandoff ==
    [][/\ \A r \in Res :
            (ReleaseCalled(r) /\ call'.assert = 0) => owner'[r] = NULL
       /\ \A r \in Res :
            (owner'[r] # owner[r] /\ owner'[r] # NULL)
                => /\ AcquireCalled(r)
                   /\ call'.ret = 1
                   /\ owner'[r] = current
                   /\ current' = current]_vars

\* a release has just woken a waiter and the resource has no owner
C4_Witness ==
    /\ call.op = "release" /\ call.assert = 0
    /\ owner[call.rid] = NULL
    /\ readyqueue # <<>>
    /\ InSeq(pending[call.rid], Last(readyqueue))

\* C5: fcfs_release by a process that is not the recorded owner (the
\* resource may have no owner) aborts the simulation at the ownership
\* assertion, with owner, wait queues, ready queue and statuses as they were.
C5_OwnershipViolation ==
    [][\A r \in Res :
        (ReleaseCalled(r) /\ owner[r] # current)
            => /\ pc' = "abort"
               /\ call'.assert = 105
               /\ owner' = owner
               /\ waitqueue' = waitqueue
               /\ readyqueue' = readyqueue
               /\ status' = status
               /\ holding' = holding]_vars

\* aborted on a release, by a non-owner, of a resource that has waiters
C5_Witness ==
    /\ pc = "abort"
    /\ call.op = "release" /\ call.assert = 105
    /\ owner[call.rid] # current
    /\ waitqueue[call.rid] # <<>>

\* C6: a resource is served in requesting order: no process is granted a
\* resource for the first time while a process that was denied it before
\* that process's first request is still alive and has not been granted it.
C6_RequestingOrder == overtaken = {}

\* the process chosen to run: what schedule has just returned, and after
\* that the current process for as long as it runs
Slot ==
    IF pc = "sched" THEN current
    ELSE IF pc = "run" /\ status[current] = PROCESS_RUNNING THEN current
    ELSE NULL

Containers(p) ==
    Occurrences(readyqueue, p)
    + Cardinality({r \in Res : InSeq(waitqueue[r], p)})
    + (IF Slot = p THEN 1 ELSE 0)

\* C7: container exclusivity: no process is in two of the ready queue, the
\* wait queues and the running slot, and none appears twice in a queue.
C7_ContainerExclusivity ==
    \A p \in Proc :
        /\ Containers(p) <= 1
        /\ \A r \in Res : Occurrences(waitqueue[r], p) <= 1

\* C8: the members of the wait queues are exactly the WAITING processes,
\* each in one wait queue, and the assertion on the head waiter's status in
\* fcfs_release does not fail.
C8_WaitingIffQueued ==
    /\ \A p \in Proc :
        /\ (\E r \in Res : InSeq(waitqueue[r], p)) => status[p] = PROCESS_WAIT
        /\ status[p] = PROCESS_WAIT
            => /\ Cardinality({r \in Res : InSeq(waitqueue[r], p)}) = 1
               /\ \A r \in Res : Occurrences(waitqueue[r], p) <= 1
    /\ call.assert # 118

\* a release has woken one waiter while another still waits
C8_Witness ==
    /\ call.op = "release" /\ call.assert = 0
    /\ waitqueue[call.rid] # <<>>
    /\ status[Head(waitqueue[call.rid])] = PROCESS_WAIT
    /\ readyqueue # <<>>
    /\ InSeq(pending[call.rid], Last(readyqueue))

\* C9: age never exceeds lifespan, schedule never returns a process whose
\* age has reached its lifespan, and no process is returned by schedule more
\* often than its lifespan.
C9_AgeWithinLifespan ==
    /\ \A p \in Proc : age[p] <= lifespan[p] /\ runs[p] <= lifespan[p]
    /\ (call.op = "schedule" /\ call.ret # NULL)
            => age[call.ret] < lifespan[call.ret]

\* schedule is called with a finished current process and returns another
C9_Witness ==
    /\ call.op = "schedule" /\ call.ret # NULL
    /\ \E p \in Proc :
        /\ status[p] = PROCESS_EXIT
        /\ lifespan[p] >= 2
        /\ runs[p] = lifespan[p]
        /\ age[p] = lifespan[p]

\* a woken waiter asks again: a free resource with waiters is taken again
WokenWaiterRetries ==
    \A r \in Res :
        [](owner[r] = NULL /\ waitqueue[r] # <<>> => <>(owner[r] # NULL))

Terminated(p) == lifespan[p] > 0 /\ age[p] = lifespan[p]

\* C10: under FIFO, SJF and SRTF, with processes that hold at most one
\* resource at a time and free it before their last tick, every process of
\* the workload eventually reaches age == lifespan.
C10_EveryProcessTerminates ==
    (policy \in {"FIFO", "SJF", "SRTF"} /\ WokenWaiterRetries)
        => \A p \in Proc : <>Terminated(p)

\* the same, for the two policies whose schedule callback cannot fault
C10_NonPreemptiveTerminates ==
    policy # "SRTF" => C10_EveryProcessTerminates

\* ------------------------------------------------------------------ schedule claims
\* the step is a call of sched->schedule(); Returned: the call came back
ScheduleCalled == pc = "fork" /\ call'.op = "schedule"

ScheduleReturned == ScheduleCalled /\ call'.assert = 0

\* current may go on running: it exists, is not WAITING, has age < lifespan
Eligible ==
    /\ current # NULL
    /\ status[current] # PROCESS_WAIT
    /\ age[current] < lifespan[current]

Remaining(p) == lifespan[p] - age[p]

Members(q) == {q[i] : i \in 1..Len(q)}

Pos(q, p) == CHOOSE i \in 1..Len(q) : q[i] = p

\* q without its i-th entry
Without(q, i) == SubSeq(q, 1, i - 1) \o SubSeq(q, i + 1, Len(q))

\* C11: under FIFO a schedule call that picks a new process returns the head
\* of the ready queue and removes exactly it; of two processes in the ready
\* queue the one nearer the head is returned first: the other is not
\* returned and does not leave the queue before it, and stays behind it.
C11_FifoOrder ==
    [][policy = "FIFO" =>
        /\ (ScheduleCalled /\ ~Eligible /\ readyqueue # <<>>)
                => /\ call'.ret = Head(readyqueue)
                   /\ readyqueue' = Tail(readyqueue)
        /\ \A i, j \in 1..Len(readyqueue) :
                i < j =>
                    /\ call'.op = "schedule" => call'.ret # readyqueue[j]
                    /\ InSeq(readyqueue', readyqueue[i])
                            => /\ InSeq(readyqueue', readyqueue[j])
                               /\ Pos(readyqueue', readyqueue[i])
                                      < Pos(readyqueue', readyqueue[j])]_vars

\* FIFO has just picked the head of a ready queue of three after a process
\* has finished
C11_Witness ==
    /\ policy = "FIFO"
    /\ call.op = "schedule" /\ call.ret # NULL
    /\ age[call.ret] = 0
    /\ Len(readyqueue) >= 2
    /\ \A i \in 1..Len(readyqueue) : call.ret < readyqueue[i]
    /\ \E p \in Proc : status[p] = PROCESS_EXIT

\* C12: when SJF needs a new pick and the ready queue is not empty,
\* sjf_schedule returns the member with the minimum lifespan, the one
\* nearest the head among equals, and removes that entry and no other,
\* the rest keeping their order.
C12_SjfPick ==
    [][(policy = "SJF" /\ ScheduleCalled /\ ~Eligible /\ readyqueue # <<>>)
        => \E i \in 1..Len(readyqueue) :
            /\ call'.assert = 0
            /\ call'.ret = readyqueue[i]
            /\ \A j \in 1..Len(readyqueue) :
                    lifespan[readyqueue[i]] <= lifespan[readyqueue[j]]
            /\ \A j \in 1..(i - 1) :
                    lifespan[readyqueue[j]] > lifespan[readyqueue[i]]
            /\ readyqueue' = Without(readyqueue, i)]_vars

\* SJF has just picked a process that was behind a longer one and ahead of
\* one with the same lifespan
C12_Witness ==
    /\ policy = "SJF"
    /\ call.op = "schedule" /\ call.ret # NULL
    /\ age[call.ret] = 0
    /\ \E i, j \in 1..Len(readyqueue) :
        /\ i < j
        /\ readyqueue[i] < call.ret
        /\ lifespan[readyqueue[i]] > lifespan[call.ret]
        /\ readyqueue[j] > call.ret
        /\ lifespan[readyqueue[j]] = lifespan[call.ret]

\* C13: SRTF optimality: when srtf_schedule returns a process, no member of
\* the ready queue as it was before the call, and no eligible current, has a
\* remaining time strictly smaller than the returned process's.
C13_SrtfOptimal ==
    [][(policy = "SRTF" /\ ScheduleReturned /\ call'.ret # NULL)
        => /\ \A x \in Members(readyqueue) :
                    Remaining(x) >= Remaining(call'.ret)
           /\ Eligible => Remaining(current) >= Remaining(call'.ret)]_vars

\* the current process has finished and SRTF has resumed a process that was
\* preempted earlier, passing over a queue member with more time remaining
C13_Witness ==
    /\ policy = "SRTF"
    /\ call.op = "schedule" /\ call.ret # NULL
    /\ call.cur # NULL /\ status[call.cur] = PROCESS_EXIT
    /\ age[call.ret] >= 1
    /\ \E x \in Members(readyqueue) : Remaining(x) > Remaining(call.ret)

\* the position of the minimum-remaining member of q, the first of equals
MinRemaining(q) ==
    CHOOSE i \in 1..Len(q) :
        /\ \A j \in 1..Len(q) : Remaining(q[i]) <= Remaining(q[j])
        /\ \A j \in 1..(i - 1) : Remaining(q[j]) > Remaining(q[i])

\* the non-terminated processes in the ready queue, the wait queues and the
\* running slot
Held ==
    {p \in Members(readyqueue)
            \cup UNION {Members(waitqueue[r]) : r \in Res}
            \cup ({current} \ {NULL}) : age[p] < lifespan[p]}

\* C14: SRTF preemption: when current is eligible and the minimum-remaining
\* ready-queue member m has strictly less remaining time, srtf_schedule
\* returns m, removes it, and inserts current at the head of the ready queue
\* with its age unchanged; the non-terminated processes held in the queues
\* and the running slot are the same before and after.
C14_SrtfPreempt ==
    [][(policy = "SRTF" /\ ScheduleCalled /\ Eligible /\ readyqueue # <<>>)
        => LET i == MinRemaining(readyqueue) IN
           Remaining(readyqueue[i]) < Remaining(current)
               => /\ call'.assert = 0
                  /\ call'.ret = readyqueue[i]
                  /\ readyqueue' = <<current>> \o Without(readyqueue, i)
                  /\ age' = age
                  /\ Held' = Held]_vars

\* SRTF has just preempted a process that holds a resource for a newcomer
\* that was not at the head; the preempted process heads the ready queue
C14_Witness ==
    /\ policy = "SRTF"
    /\ call.op = "schedule" /\ call.ret # NULL
    /\ age[call.ret] = 0
    /\ Len(readyqueue) >= 2
    /\ Head(readyqueue) = call.cur
    /\ status[call.cur] = PROCESS_READY
    /\ holding[call.cur] # {}
    /\ age[call.cur] >= 1
    /\ Remaining(call.cur) > Remaining(call.ret)
    /\ \E x \in Members(readyqueue) : x # call.cur /\ x < call.ret

\* C15: SRTF with an empty ready queue: srtf_schedule returns current if and
\* only if current exists, is not WAITING and has age < lifespan; in every
\* other case it returns no process, and it does not fault.
C15_SrtfEmptyQueue ==
    [][(policy = "SRTF" /\ ScheduleCalled /\ readyqueue = <<>>)
        => /\ call'.assert = 0
           /\ call'.ret = IF Eligible THEN current ELSE NULL]_vars

C18_NonPreemptive ==
    [][(policy \in {"FIFO", "SJF"} /\ ScheduleCalled /\ Eligible)
        => /\ call'.assert = 0
           /\ call'.ret = current
           /\ readyqueue' = readyqueue
           /\ waitqueue' = waitqueue]_vars

\* SJF has just continued a process although a ready process has a lifespan
\* shorter than what the process still has to run
C18_Witness ==
    /\ policy = "SJF"
    /\ call.op = "schedule" /\ call.ret # NULL
    /\ current = call.ret
    /\ age[current] >= 1
    /\ \E x \in Members(readyqueue) : lifespan[x] < Remaining(current)

\* C19: SRTF ties favour the incumbent: with an eligible current whose
\* remaining time is at most that of the minimum-remaining ready-queue
\* member, srtf_schedule returns current and leaves the ready queue as it
\* was.
C19_SrtfTie ==
    [][(policy = "SRTF" /\ ScheduleCalled /\ Eligible /\ readyqueue # <<>>)
        => (Remaining(current)
                <= Remaining(readyqueue[MinRemaining(readyqueue)])
            => /\ call'.assert = 0
               /\ call'.ret = current
               /\ readyqueue' = readyqueue)]_vars

\* SRTF has just continued a process that has run, while a ready process
\* has exactly the same remaining time
C19_Witness ==
    /\ policy = "SRTF"
    /\ call.op = "schedule" /\ call.ret # NULL
    /\ call.cur = call.ret
    /\ age[call.ret] >= 1
    /\ readyqueue # <<>>
    /\ Remaining(readyqueue[MinRemaining(readyqueue)]) = Remaining(call.ret)

\* C20: a schedule call that comes back leaves the current slot at its
\* value from before the call or at the process it returns, and never
\* clears it; fifo_schedule and srtf_schedule do not write it, sjf_schedule
\* writes it only when it picks from a non-empty ready queue.
C20_SlotReadMostly ==
    [][(policy \in {"FIFO", "SJF", "SRTF"} /\ ScheduleReturned)
        => /\ call'.cur \in {current, call'.ret}
           /\ call'.cur = NULL => current = NULL
           /\ policy \in {"FIFO", "SRTF"} => call'.cur = current
           /\ call'.cur # current
                => /\ policy = "SJF"
                   /\ ~Eligible
                   /\ readyqueue # <<>>]_vars

\* sjf_schedule has written the slot: the process of the previous tick has
\* finished and the slot holds the pick, which was not at the head
C20_Witness ==
    /\ policy = "SJF"
    /\ call.op = "schedule" /\ call.ret # NULL
    /\ call.cur = call.ret
    /\ age[call.ret] = 0
    /\ \E p \in Proc : status[p] = PROCESS_EXIT
    /\ \E x \in Members(readyqueue) : x < call.ret

====
